---- MODULE Spec2Model ----
(***************************************************************************)
(* A model of powered (src/main.rs): the per-trigger debounced poll and    *)
(* cache, the watch-descriptor routing of the event loop, and the          *)
(* name-keyed dispatch of a resolved value to the configured actions.      *)
(*                                                                         *)
(* Strings whose characters matter (file contents, paths, glob patterns)   *)
(* are sequences of one-character strings; opaque strings (trigger names,  *)
(* semantic values) are TLA+ strings.  An Option is a set of at most one   *)
(* element: None is {} and Some(x) is {x}.                                 *)
(***************************************************************************)
EXTENDS Integers, Sequences, FiniteSets, TLC

None == {}
Some(x) == {x}
unwrap(o) == CHOOSE x \in o : TRUE

\* Duration::from_millis(50), the debounce window in milliseconds.
Debounce == 50

\* The clock advances in steps of half a window, at most MaxTicks times.
MaxTicks == 2
HalfWindow == Debounce \div 2

\* The largest batch of events one read_events() call returns.
MaxBatch == 1

(***************************************************************************)
(* The configuration: two triggers and three actions.                      *)
(***************************************************************************)
s1 == <<"s", "t", "1">>
s2 == <<"s", "t", "2">>
o1 == <<"o", "1">>
o2 == <<"o", "2">>

cfg ==
  [ trigger |-> <<
      [ name |-> "t1", file |-> s1,
        map |-> (<<"o", "n">> :> "active") @@ (<<"o", "f", "f">> :> "idle") ],
      [ name |-> "t2", file |-> s2,
        map |-> (<<"o", "n">> :> "active") ] >>,
    action |-> <<
      [ trigger |-> "t1", file |-> <<"o", "1">>,
        values |-> ("idle" :> <<"1">>) ],
      [ trigger |-> "t1", file |-> <<"o", "*">>,
        values |-> ("active" :> <<"1">>) @@ ("idle" :> <<"0">>) ],
      [ trigger |-> "t2", file |-> <<"?", "2">>,
        values |-> ("active" :> <<"1">>) ] >> ]

Triggers == 1 .. Len(cfg.trigger)
Actions == 1 .. Len(cfg.action)

\* The paths of the filesystem, in the alphabetical order glob yields them.
AllPaths == <<o1, o2, s1, s2>>
Paths == {AllPaths[k] : k \in 1 .. Len(AllPaths)}
TargetPaths == {o1, o2}

\* What a target file holds when something other than this program made it.
Stale == <<"0">>

\* The files that exist when the program starts.
InitialFiles == {o1, s1, s2}

\* What the external producers write to the watched files.
RawContents ==
  (s1 :> { <<" ", "o", "n", "\n">>, <<"o", "f", "f">>, <<"x">> }) @@
  (s2 :> { <<"o", "n", "\n">>, <<"o", " ", "n">> })

\* Watch descriptors: add_watch returns k for the k-th trigger; one further
\* descriptor, of no watch in trigger_map, can arrive in an event.
UnknownWd == Len(cfg.trigger) + 1
Wds == Triggers \cup {UnknownWd}

VARIABLES
  fs,            \* path -> content (a sequence of characters) or NoFile
  now,           \* Instant::now(), in milliseconds
  pc,            \* "new", "init_poll", "loop" or "exit"
  i,             \* position of `for trig in &cfg.trigger`
  last_access,   \* handler -> Option<Instant>
  cached_val,    \* handler -> Option<&String>
  last_raw,      \* handler -> Option of the content its latest successful read returned
  trigger_map,   \* watch descriptor -> handler
  events,        \* the events of the current batch not yet processed
  watches,       \* the watch descriptors add_watch has installed
  init_polls,    \* trigger -> the number of initial polls it got
  out            \* what the latest step did

vars == <<fs, now, pc, i, last_access, cached_val, last_raw, trigger_map, events,
          watches, init_polls, out>>

(***************************************************************************)
(* Pure functions.                                                         *)
(***************************************************************************)
NoFile == <<"ENOENT">>

Whitespace == {" ", "\n", "\t", "\r"}

RECURSIVE trim_start(_)
trim_start(s) ==
  IF s # <<>> /\ Head(s) \in Whitespace THEN trim_start(Tail(s)) ELSE s

RECURSIVE trim_end(_)
trim_end(s) ==
  IF s # <<>> /\ s[Len(s)] \in Whitespace
  THEN trim_end(SubSeq(s, 1, Len(s) - 1))
  ELSE s

\* str::trim
trim(s) == trim_end(trim_start(s))

\* HashMap::get
map_get(m, k) == IF k \in DOMAIN m THEN Some(m[k]) ELSE None

\* The window's end counted into the window.
Debounced_inclusive(la, t) == la # None /\ t - unwrap(la) <= Debounce

\* The comparison of the window turned around.
Debounced_flipped(la, t) == la # None /\ t - unwrap(la) > Debounce

\* last_access.is_some_and(|instant| instant.elapsed() < Duration::from_millis(50))
Debounced(la, t) == la # None /\ t - unwrap(la) < Debounce

\* glob::Pattern::matches: `*` is any run of characters, `?` any one character.
RECURSIVE Matches(_, _)
Matches(pat, s) ==
  IF pat = <<>> THEN s = <<>>
  ELSE IF Head(pat) = "*"
    THEN Matches(Tail(pat), s) \/ (s # <<>> /\ Matches(pat, Tail(s)))
    ELSE /\ s # <<>>
         /\ Head(pat) = "?" \/ Head(pat) = Head(s)
         /\ Matches(Tail(pat), Tail(s))

RECURSIVE select_paths(_, _, _)
select_paths(pat, f, k) ==
  IF k > Len(AllPaths) THEN <<>>
  ELSE (IF f[AllPaths[k]] # NoFile /\ Matches(pat, AllPaths[k])
        THEN <<AllPaths[k]>> ELSE <<>>) \o select_paths(pat, f, k + 1)

\* The pattern expanded against the files of process start, whatever f holds.
glob_at_load(pat, f) ==
  select_paths(pat, [p \in DOMAIN f |-> IF p \in InitialFiles THEN Stale ELSE NoFile], 1)

\* glob(file): the existing paths of filesystem f that match, in alphabetical order.
glob(pat, f) == select_paths(pat, f, 1)

(***************************************************************************)
(* What the operating system may answer to one dispatch: the path whose    *)
(* write fails (refused before the file is touched) and the action whose   *)
(* directory walk fails; at most one failure per dispatch.                 *)
(***************************************************************************)
IoOutcomes ==
  {[bad |-> {}, glob_err |-> 0]}
    \cup {[bad |-> {p}, glob_err |-> 0] : p \in TargetPaths}
    \cup {[bad |-> {}, glob_err |-> a] : a \in Actions}

\* What one poll and its dispatch may meet: a failing read, or a good read
\* and one of the outcomes above.
IoOk == [bad |-> {}, glob_err |-> 0]
PollInputs == {<<"err", IoOk>>} \cup {<<"ok", io>> : io \in IoOutcomes}

\* The write loop going on after a failed write and reporting it at the end.
RECURSIVE write_paths_continue(_, _, _, _, _)
write_paths_continue(paths, val, f, io, wrote) ==
  IF paths = <<>> THEN [fs |-> f, ok |-> TRUE, wrote |-> wrote, failed |-> None]
  ELSE LET p == Head(paths) IN
    IF p \in io.bad
    THEN [write_paths_continue(Tail(paths), val, f, io, wrote)
            EXCEPT !.ok = FALSE, !.failed = Some(p)]
    ELSE write_paths_continue(Tail(paths), val, [f EXCEPT ![p] = val], io,
                              wrote \cup {p})

\* The write loop leaving after its first path.
write_paths_first(paths, val, f, io, wrote) ==
  IF paths = <<>> THEN [fs |-> f, ok |-> TRUE, wrote |-> wrote, failed |-> None]
  ELSE IF Head(paths) \in io.bad
    THEN [fs |-> f, ok |-> FALSE, wrote |-> wrote, failed |-> Some(Head(paths))]
    ELSE [fs |-> [f EXCEPT ![Head(paths)] = val], ok |-> TRUE,
          wrote |-> wrote \cup {Head(paths)}, failed |-> None]

\* The loop `for path in iter? { fs::write(path, val).context(..)?; }`
RECURSIVE write_paths(_, _, _, _, _)
write_paths(paths, val, f, io, wrote) ==
  IF paths = <<>> THEN [fs |-> f, ok |-> TRUE, wrote |-> wrote, failed |-> None]
  ELSE LET p == Head(paths) IN
    IF p \in io.bad
    THEN [fs |-> f, ok |-> FALSE, wrote |-> wrote, failed |-> Some(p)]
    ELSE write_paths(Tail(paths), val, [f EXCEPT ![p] = val], io, wrote \cup {p})

\* A missing value reported as an error of the action.
on_miss_error(f) ==
  [fs |-> f, ok |-> FALSE, globbed |-> FALSE, wrote |-> {}, failed |-> None]

\* The else branch of `if let Some(val) = values.get(value)`: a message, no error.
on_miss(f) ==
  [fs |-> f, ok |-> TRUE, globbed |-> FALSE, wrote |-> {}, failed |-> None]

\* The action run for whatever trigger fired.
Action_on_trigger_any(a, t, value, f, io) ==
  LET act == cfg.action[a]
      val == map_get(act.values, value)
  IN IF val # None
     THEN IF io.glob_err = a
          THEN [fs |-> f, ok |-> FALSE, globbed |-> TRUE, wrote |-> {},
                failed |-> None]
          ELSE [globbed |-> TRUE] @@
               write_paths(glob(act.file, f), unwrap(val), f, io, {})
     ELSE on_miss(f)

\* Action::on_trigger, for the a-th action of the configuration.
Action_on_trigger(a, t, value, f, io) ==
  LET act == cfg.action[a]
      val == map_get(act.values, value)
  IN IF t # act.trigger
     THEN [fs |-> f, ok |-> TRUE, globbed |-> FALSE, wrote |-> {}, failed |-> None]
     ELSE IF val # None
       THEN IF io.glob_err = a
            THEN [fs |-> f, ok |-> FALSE, globbed |-> TRUE, wrote |-> {},
                  failed |-> None]
            ELSE [globbed |-> TRUE] @@
                 write_paths(glob(act.file, f), unwrap(val), f, io, {})
       ELSE on_miss(f)

\* The `?` of Config::on_trigger: whether the action's result r ends the dispatch.
Propagates(r) == ~r.ok

NoDispatch(f) ==
  [fs |-> f, err |-> 0, failed |-> None, called |-> {}, globbed |-> {},
   wrote |-> [a \in Actions |-> {}]]

RECURSIVE for_action(_, _, _, _, _)
for_action(a, trig, value, io, acc) ==
  IF a > Len(cfg.action) THEN acc
  ELSE LET r == Action_on_trigger(a, trig, value, acc.fs, io)
           nxt == [fs |-> r.fs,
                   err |-> IF r.ok THEN 0 ELSE a,
                   failed |-> r.failed,
                   called |-> acc.called \cup {a},
                   globbed |-> IF r.globbed THEN acc.globbed \cup {a} ELSE acc.globbed,
                   wrote |-> [acc.wrote EXCEPT ![a] = r.wrote]]
       IN IF Propagates(r) THEN nxt ELSE for_action(a + 1, trig, value, io, nxt)

\* Config::on_trigger
Config_on_trigger(trig, value, f, io) == for_action(1, trig, value, io, NoDispatch(f))

\* Every read taken for a change.
Changed_always(val, cached) == TRUE

\* `val != self.cached_val`
Changed(val, cached) == val # cached

\* The cache filled by the first value and never replaced.
stored_first(val, cached) == IF cached = None THEN val ELSE cached

\* A mapping miss leaving the cache as it was.
stored_keep(val, cached) == IF val = None THEN cached ELSE val

\* The cache after a read that resolved to val: `self.cached_val = val` when changed.
stored(val, cached) == IF Changed(val, cached) THEN val ELSE cached

\* The value replaced in the cache returned in place of the new one.
returned_old(val, cached) == IF Changed(val, cached) THEN cached ELSE None

\* The value a read that resolved to val returns: the new cache when changed, else None.
returned(val, cached) == IF Changed(val, cached) THEN stored(val, cached) ELSE None

\* The debounce clock restarted by the reads that hit the map only.
stamp_on_hit(val, la, t) == IF val = None THEN la ELSE Some(t)

\* `self.last_access = Some(Instant::now())` after a read that resolved to val.
stamp(val, la, t) == Some(t)

\* The debounce clock restarted by a read that failed.
read_error_stamped(same) ==
  [same EXCEPT !.ok = FALSE, !.read = "err", !.last_access = Some(now)]

\* The `?` of `fs::read_to_string(&self.trigger.file)?`: the error is returned
\* with the handler as it was.
read_error(same) == [same EXCEPT !.ok = FALSE, !.read = "err"]

\* TriggerHandler::poll_and_name of handler h; rd says whether read_to_string succeeds.
poll_and_name(h, rd) ==
  LET trigger == cfg.trigger[h]
      same == [ok |-> TRUE, read |-> "skip", value |-> None, name |-> trigger.name,
               last_access |-> last_access[h], cached_val |-> cached_val[h],
               last_raw |-> last_raw[h]]
  IN IF Debounced(last_access[h], now) THEN same
     ELSE IF rd # "ok" \/ fs[trigger.file] = NoFile
       THEN read_error(same)
       ELSE LET raw == fs[trigger.file]
                val == map_get(trigger.map, trim(raw))
            IN [ok |-> TRUE, read |-> "ok", name |-> trigger.name,
                value |-> returned(val, cached_val[h]),
                last_access |-> stamp(val, last_access[h], now),
                cached_val |-> stored(val, cached_val[h]),
                last_raw |-> Some(raw)]

(***************************************************************************)
(* The state machine.                                                      *)
(***************************************************************************)
\* What a step reports in `out`: the operation, the handler it polled (0: none),
\* the handler's last_access, cached_val and last_raw before the poll, how the poll went
\* ("none": no poll, "skip": debounced, "ok", "err"), the value the poll
\* returned, the dispatch (trigger name, value) it made, and what the dispatch
\* did: the actions called, those that expanded their pattern, the paths each
\* wrote, the action that failed (0: none) and the path whose write failed.
Quiet(op) ==
  [op |-> op, h |-> 0, before_access |-> None, before_cached |-> None,
   before_raw |-> None, read |-> "none", value |-> None, disp |-> None,
   err |-> 0, failed |-> None, called |-> {}, globbed |-> {}, wrote |-> [a \in Actions |-> {}]]

Batches == UNION {[1 .. n -> Wds] : n \in 1 .. MaxBatch}

Init ==
  /\ fs \in {[p \in Paths |->
               IF p = s1 THEN c1 ELSE IF p = s2 THEN c2
               ELSE IF p \in InitialFiles THEN Stale ELSE NoFile] :
             c1 \in RawContents[s1], c2 \in RawContents[s2]}
  /\ now = 0
  /\ pc = "new"
  /\ i = 1
  /\ last_access = [h \in Triggers |-> None]
  /\ cached_val = [h \in Triggers |-> None]
  /\ last_raw = [h \in Triggers |-> None]
  /\ trigger_map = <<>>
  /\ events = <<>>
  /\ watches = {}
  /\ init_polls = [h \in Triggers |-> 0]
  /\ out = Quiet("env")

\* The value of the initial poll cached but not dispatched.
PollAndDispatch_loop_only(op, h, rd, io) ==
  LET r == poll_and_name(h, rd)
      go == op = "event" /\ r.ok /\ r.value # None
      d == IF go THEN Config_on_trigger(r.name, unwrap(r.value), fs, io)
           ELSE NoDispatch(fs)
  IN /\ last_access' = [last_access EXCEPT ![h] = r.last_access]
     /\ cached_val' = [cached_val EXCEPT ![h] = r.cached_val]
     /\ last_raw' = [last_raw EXCEPT ![h] = r.last_raw]
     /\ fs' = d.fs
     /\ out' = [op |-> op, h |-> h,
                before_access |-> last_access[h], before_cached |-> cached_val[h],
                before_raw |-> last_raw[h],
                read |-> r.read, value |-> r.value,
                disp |-> IF go THEN Some(<<r.name, unwrap(r.value)>>) ELSE None,
                err |-> d.err, failed |-> d.failed, called |-> d.called,
                globbed |-> d.globbed, wrote |-> d.wrote]

\* The cache put back to its old value when the dispatch fails.
PollAndDispatch_rollback(op, h, rd, io) ==
  LET r == poll_and_name(h, rd)
      d == IF r.ok /\ r.value # None
           THEN Config_on_trigger(r.name, unwrap(r.value), fs, io)
           ELSE NoDispatch(fs)
  IN /\ last_access' = [last_access EXCEPT ![h] = r.last_access]
     /\ cached_val' = [cached_val EXCEPT
                         ![h] = IF d.err # 0 THEN cached_val[h] ELSE r.cached_val]
     /\ last_raw' = [last_raw EXCEPT ![h] = r.last_raw]
     /\ fs' = d.fs
     /\ out' = [op |-> op, h |-> h,
                before_access |-> last_access[h], before_cached |-> cached_val[h],
                before_raw |-> last_raw[h],
                read |-> r.read, value |-> r.value,
                disp |-> IF r.ok /\ r.value # None
                         THEN Some(<<r.name, unwrap(r.value)>>) ELSE None,
                err |-> d.err, failed |-> d.failed, called |-> d.called,
                globbed |-> d.globbed, wrote |-> d.wrote]

\* The poll of handler h and, when it yields a value, the dispatch of that value:
\* `let (value, name) = handler.poll_and_name()?; if let Some(val) = value { .. }`.
\* An error of the dispatch is printed and dropped.
PollAndDispatch(op, h, rd, io) ==
  LET r == poll_and_name(h, rd)
      d == IF r.ok /\ r.value # None
           THEN Config_on_trigger(r.name, unwrap(r.value), fs, io)
           ELSE NoDispatch(fs)
  IN /\ last_access' = [last_access EXCEPT ![h] = r.last_access]
     /\ cached_val' = [cached_val EXCEPT ![h] = r.cached_val]
     /\ last_raw' = [last_raw EXCEPT ![h] = r.last_raw]
     /\ fs' = d.fs
     /\ out' = [op |-> op, h |-> h,
                before_access |-> last_access[h], before_cached |-> cached_val[h],
                before_raw |-> last_raw[h],
                read |-> r.read, value |-> r.value,
                disp |-> IF r.ok /\ r.value # None
                         THEN Some(<<r.name, unwrap(r.value)>>) ELSE None,
                err |-> d.err, failed |-> d.failed, called |-> d.called, globbed |-> d.globbed,
                wrote |-> d.wrote]

\* The handler made without its watch.
TriggerHandler_new_unwatched(ok) ==
  /\ pc = "new"
  /\ pc' = IF ok THEN "init_poll" ELSE "exit"
  /\ out' = Quiet("new")
  /\ UNCHANGED <<fs, now, i, last_access, cached_val, last_raw, trigger_map, events,
                 watches, init_polls>>

\* TriggerHandler::new for the i-th trigger: add_watch succeeds or fails.
TriggerHandler_new(ok) ==
  /\ pc = "new"
  /\ pc' = IF ok THEN "init_poll" ELSE "exit"
  /\ watches' = IF ok THEN watches \cup {i} ELSE watches
  /\ out' = Quiet("new")
  /\ UNCHANGED <<fs, now, i, last_access, cached_val, last_raw, trigger_map, events,
                 init_polls>>

\* The rest of the startup loop's body for the i-th trigger: the initial poll,
\* the dispatch of its value, and trigger_map.insert(watch, handler).
InitPoll(rd, io) ==
  /\ pc = "init_poll"
  /\ PollAndDispatch("init_poll", i, rd, io)
  /\ init_polls' = [init_polls EXCEPT ![i] = @ + 1]
  /\ IF out'.read = "err"
     THEN pc' = "exit" /\ UNCHANGED <<i, trigger_map>>
     ELSE /\ trigger_map' = Append(trigger_map, i)
          /\ i' = i + 1
          /\ pc' = IF i = Len(cfg.trigger) THEN "loop" ELSE "new"
  /\ UNCHANGED <<now, events, watches>>

\* inotify.read_events().unwrap(): a batch of events, or a panic.
ReadEvents(ok, batch) ==
  /\ pc = "loop"
  /\ events = <<>>
  /\ IF ok THEN events' = batch /\ pc' = pc
           ELSE events' = events /\ pc' = "exit"
  /\ out' = Quiet("read_events")
  /\ UNCHANGED <<fs, now, i, last_access, cached_val, last_raw, trigger_map,
                 watches, init_polls>>

\* An unknown watch descriptor routed to the first handler.
get_mut_first(wd) ==
  IF wd \in DOMAIN trigger_map THEN Some(trigger_map[wd]) ELSE Some(trigger_map[1])

\* trigger_map.get_mut(&ev.wd)
get_mut(wd) == IF wd \in DOMAIN trigger_map THEN Some(trigger_map[wd]) ELSE None

\* An event whose poll was debounced put back at the end of the batch.
ProcessEvent_requeue(rd, io) ==
  /\ pc = "loop"
  /\ events # <<>>
  /\ IF get_mut(Head(events)) # None
     THEN /\ PollAndDispatch("event", unwrap(get_mut(Head(events))), rd, io)
          /\ pc' = IF out'.read = "err" THEN "exit" ELSE pc
          /\ events' = IF out'.read = "skip"
                       THEN Append(Tail(events), Head(events)) ELSE Tail(events)
     ELSE /\ out' = Quiet("event")
          /\ events' = Tail(events)
          /\ UNCHANGED <<fs, last_access, cached_val, last_raw, pc>>
  /\ UNCHANGED <<now, i, trigger_map, watches, init_polls>>

\* One iteration of `for ev in &events`.
ProcessEvent(rd, io) ==
  /\ pc = "loop"
  /\ events # <<>>
  /\ events' = Tail(events)
  /\ IF get_mut(Head(events)) # None
     THEN /\ PollAndDispatch("event", unwrap(get_mut(Head(events))), rd, io)
          /\ pc' = IF out'.read = "err" THEN "exit" ELSE pc
     ELSE /\ out' = Quiet("event")
          /\ UNCHANGED <<fs, last_access, cached_val, last_raw, pc>>
  /\ UNCHANGED <<now, i, trigger_map, watches, init_polls>>

(***************************************************************************)
(* The environment: time passes, producers rewrite the watched files,      *)
(* target files are created and removed.  The loop handles a batch without *)
(* blocking, so the environment's steps are taken between batches.         *)
(***************************************************************************)
Tick ==
  /\ pc # "exit"
  /\ events = <<>>
  /\ now < MaxTicks * HalfWindow
  /\ now' = now + HalfWindow
  /\ out' = Quiet("env")
  /\ UNCHANGED <<fs, pc, i, last_access, cached_val, last_raw, trigger_map, events,
                 watches, init_polls>>

StatusWrite(p, c) ==
  /\ pc # "exit"
  /\ events = <<>>
  /\ fs[p] # c
  /\ fs' = [fs EXCEPT ![p] = c]
  /\ out' = Quiet("env")
  /\ UNCHANGED <<now, pc, i, last_access, cached_val, last_raw, trigger_map, events,
                 watches, init_polls>>

CreateTarget(p) ==
  /\ pc # "exit"
  /\ events = <<>>
  /\ fs[p] = NoFile
  /\ fs' = [fs EXCEPT ![p] = Stale]
  /\ out' = Quiet("env")
  /\ UNCHANGED <<now, pc, i, last_access, cached_val, last_raw, trigger_map, events,
                 watches, init_polls>>

RemoveTarget(p) ==
  /\ pc # "exit"
  /\ events = <<>>
  /\ fs[p] # NoFile
  /\ fs' = [fs EXCEPT ![p] = NoFile]
  /\ out' = Quiet("env")
  /\ UNCHANGED <<now, pc, i, last_access, cached_val, last_raw, trigger_map, events,
                 watches, init_polls>>

Next ==
  \/ \E ok \in BOOLEAN : TriggerHandler_new(ok)
  \/ \E in \in PollInputs : InitPoll(in[1], in[2])
  \/ \E ok \in BOOLEAN, batch \in Batches : ReadEvents(ok, batch)
  \/ \E in \in PollInputs : ProcessEvent(in[1], in[2])
  \/ Tick
  \/ \E p \in DOMAIN RawContents : \E c \in RawContents[p] : StatusWrite(p, c)
  \/ \E p \in TargetPaths : CreateTarget(p)
  \/ \E p \in TargetPaths : RemoveTarget(p)

Spec == Init /\ [][Next]_vars

(***************************************************************************)
(* Vocabulary of the properties.                                           *)
(***************************************************************************)
\* The latest step polled handler h (at startup or for an event).
Polled(h) == out.op \in {"init_poll", "event"} /\ out.h = h

\* The semantic value the trigger's map gives the content raw, as an Option.
resolve(h, raw) == map_get(cfg.trigger[h].map, trim(raw))

\* The time since `la`, an Option<Instant> that is not None.
elapsed(la) == now - unwrap(la)

\* The paths of filesystem f that the a-th action's pattern matches.
matched(a, f) == {p \in Paths : f[p] # NoFile /\ Matches(cfg.action[a].file, p)}

\* The actions bound to trigger name n that have an output for value v.
firing(n, v) ==
  {a \in Actions : cfg.action[a].trigger = n /\ v \in DOMAIN cfg.action[a].values}

(***************************************************************************)
(* C1  Debounce suppression.  A poll of a handler whose previous successful *)
(* read is less than 50 ms old reads nothing and returns "no new value",   *)
(* whatever the watched file holds by then: last_access, the cached value, *)
(* the content last read and the filesystem are as before, and nothing is  *)
(* dispatched.                                                             *)
(***************************************************************************)
C1_DebounceSuppression ==
  [][\A h \in Triggers :
       (/\ out'.op \in {"init_poll", "event"} /\ out'.h = h
        /\ last_access[h] # None
        /\ now - unwrap(last_access[h]) < Debounce)
       => /\ out'.read = "skip"
          /\ out'.value = None /\ out'.disp = None
          /\ last_access'[h] = last_access[h]
          /\ cached_val'[h] = cached_val[h]
          /\ last_raw'[h] = last_raw[h]
          /\ fs' = fs]_vars

\* A poll was suppressed although the file's content had changed since the last
\* read, to content that resolves to another value than the cached one.
C1_Witness ==
  \E h \in Triggers :
    /\ Polled(h) /\ out.read = "skip"
    /\ fs[cfg.trigger[h].file] # unwrap(last_raw[h])
    /\ resolve(h, fs[cfg.trigger[h].file]) # cached_val[h]
    /\ resolve(h, fs[cfg.trigger[h].file]) # None

(***************************************************************************)
(* C2  Dedup, as claimed: action dispatch is invoked exactly when a poll's *)
(* resolved value differs from the cached one, transitions between absent  *)
(* and present in both directions included.                                *)
(***************************************************************************)
C2_DispatchOnEveryChange ==
  [][\A h \in Triggers :
       (out'.op \in {"init_poll", "event"} /\ out'.h = h /\ out'.read = "ok")
       => (out'.disp # None
             <=> resolve(h, fs[cfg.trigger[h].file]) # cached_val[h])]_vars

(***************************************************************************)
(* C2  Dedup, as the code has it: a poll invokes action dispatch exactly   *)
(* when it reads the file and the value it resolves is present and differs *)
(* from the cached one; the dispatch carries the trigger's name and that   *)
(* value.  A poll that resolves to the cached value, in whatever window,   *)
(* and a poll that resolves to no value dispatch nothing.                  *)
(***************************************************************************)
C2_Dedup ==
  [][\A h \in Triggers :
       (out'.op \in {"init_poll", "event"} /\ out'.h = h)
       => LET val == resolve(h, fs[cfg.trigger[h].file]) IN
          /\ out'.disp # None
               <=> (out'.read = "ok" /\ val # None /\ val # cached_val[h])
          /\ out'.disp # None
               => out'.disp = Some(<<cfg.trigger[h].name, unwrap(val)>>)]_vars

\* A poll a full window after the previous read read the file, resolved the
\* value already cached, and dispatched nothing.
C2_Witness ==
  \E h \in Triggers :
    /\ Polled(h) /\ out.op = "event" /\ out.read = "ok"
    /\ elapsed(out.before_access) >= Debounce
    /\ out.before_cached # None
    /\ resolve(h, fs[cfg.trigger[h].file]) = out.before_cached
    /\ out.disp = None /\ out.called = {}

(***************************************************************************)
(* C3  Mapping miss, as claimed: a poll that reads content with no entry   *)
(* in the trigger's map leaves the process running and the cached value as *)
(* it was before the poll.                                                 *)
(***************************************************************************)
C3_MissKeepsCache ==
  [][\A h \in Triggers :
       (/\ out'.op \in {"init_poll", "event"} /\ out'.h = h /\ out'.read = "ok"
        /\ resolve(h, fs[cfg.trigger[h].file]) = None)
       => cached_val'[h] = cached_val[h] /\ pc' # "exit"]_vars

(***************************************************************************)
(* C3  Mapping miss, as the code has it: a poll that reads content with no *)
(* entry in the trigger's map leaves the process running, dispatches       *)
(* nothing and leaves the cached value None: unchanged if it was None,     *)
(* cleared if a value was cached.                                          *)
(***************************************************************************)
C3_MissClearsCache ==
  [][\A h \in Triggers :
       (/\ out'.op \in {"init_poll", "event"} /\ out'.h = h /\ out'.read = "ok"
        /\ resolve(h, fs[cfg.trigger[h].file]) = None)
       => /\ cached_val'[h] = None
          /\ pc' # "exit"
          /\ out'.value = None /\ out'.disp = None /\ fs' = fs]_vars

\* A poll read unmapped content while a value was cached; the cache is now None.
C3_Witness ==
  \E h \in Triggers :
    /\ Polled(h) /\ out.read = "ok"
    /\ resolve(h, fs[cfg.trigger[h].file]) = None
    /\ out.before_cached # None
    /\ cached_val[h] = None
    /\ pc = "loop"

(***************************************************************************)
(* C4  Poll failure inside the event loop is isolated: a read error of the *)
(* poll made for an event leaves the process in its loop.                  *)
(***************************************************************************)
C4_PollFailureIsolated ==
  (out.op = "event" /\ out.read = "err") => pc = "loop"

(***************************************************************************)
(* C5  Write errors do not stop other actions: when an action fails on a   *)
(* write during a dispatch, every later action bound to the same trigger   *)
(* is still run, and the loop keeps running.                               *)
(***************************************************************************)
C5_WriteErrorsIsolated ==
  (out.disp # None /\ out.failed # None)
  => /\ \A b \in Actions :
          (b > out.err /\ cfg.action[b].trigger = unwrap(out.disp)[1])
          => b \in out.called
     /\ pc # "exit"

(***************************************************************************)
(* C6  Action isolation on mapping miss.  In a dispatch of (n, v), an      *)
(* action bound to n that has no output for v writes nothing, expands no   *)
(* pattern and raises no error, and the dispatch goes on: every later      *)
(* action bound to n is called, unless an action between the two failed,   *)
(* and a later action that has an output for v and does not fail writes it *)
(* to every path its pattern matches.                                      *)
(***************************************************************************)
C6_ActionIsolation ==
  \A a \in out.called :
    LET n == unwrap(out.disp)[1]
        v == unwrap(out.disp)[2]
    IN (cfg.action[a].trigger = n /\ v \notin DOMAIN cfg.action[a].values)
       => /\ out.wrote[a] = {} /\ a \notin out.globbed /\ out.err # a
          /\ \A b \in Actions :
               (b > a /\ cfg.action[b].trigger = n)
               => /\ b \in out.called \/ out.err \in (a + 1) .. (b - 1)
                  /\ (b \in firing(n, v) /\ b \in out.called /\ out.err # b)
                     => /\ out.wrote[b] = matched(b, fs)
                        /\ \A p \in out.wrote[b] :
                             \/ fs[p] = cfg.action[b].values[v]
                             \/ \E c \in Actions : c > b /\ p \in out.wrote[c]

\* A dispatch of "active" for t1: the first action has no output for it and
\* wrote nothing, the second wrote its output.
C6_Witness ==
  /\ out.disp = Some(<<"t1", "active">>)
  /\ 1 \in out.called /\ out.wrote[1] = {}
  /\ 2 \in out.called /\ out.wrote[2] # {}
  /\ \A p \in out.wrote[2] : fs[p] = <<"1">>

(***************************************************************************)
(* C7  Changed value is reported after the window.  A poll with no         *)
(* previous read, or at least 50 ms after it, whose read succeeds with     *)
(* content that resolves to a value other than the cached one, reads the   *)
(* file, makes that value the cached one and returns it with the trigger's *)
(* name.                                                                   *)
(***************************************************************************)
C7_ChangedValueReported ==
  \A h \in Triggers :
    LET val == resolve(h, fs[cfg.trigger[h].file]) IN
    (/\ Polled(h) /\ out.read # "err"
     /\ out.before_access = None \/ elapsed(out.before_access) >= Debounce
     /\ val # None /\ val # out.before_cached)
    => /\ out.read = "ok"
       /\ cached_val[h] = val
       /\ out.value = val
       /\ out.disp = Some(<<cfg.trigger[h].name, unwrap(val)>>)
       /\ last_access[h] = Some(now)

\* A poll exactly 50 ms after the previous read reported a value that replaced
\* another cached value.
C7_Witness ==
  \E h \in Triggers :
    /\ Polled(h) /\ out.op = "event" /\ out.read = "ok"
    /\ out.before_access # None /\ elapsed(out.before_access) = Debounce
    /\ out.before_cached # None
    /\ out.value # None /\ out.value # out.before_cached
    /\ cached_val[h] = out.value

\* The case of C8: an event's poll outside the window resolved a value other than
\* the cached one, and the dispatch of it met no failure.
Relayed(h, v) ==
  /\ Polled(h) /\ out.op = "event"
  /\ out.read # "err"
  /\ out.before_access = None \/ elapsed(out.before_access) >= Debounce
  /\ resolve(h, fs[cfg.trigger[h].file]) = Some(v)
  /\ Some(v) # out.before_cached
  /\ out.err = 0

(***************************************************************************)
(* C8  End-to-end relay, as claimed: after such an event, every path that  *)
(* matches the pattern of an action bound to the trigger with an output    *)
(* for v holds exactly that action's output for v.                         *)
(***************************************************************************)
C8_EveryActionsOutput ==
  \A h \in Triggers : \A v \in {"active", "idle"} :
    Relayed(h, v)
    => \A a \in firing(cfg.trigger[h].name, v) :
         \A p \in matched(a, fs) : fs[p] = cfg.action[a].values[v]

(***************************************************************************)
(* C8  End-to-end relay, as the code has it: after such an event, every    *)
(* path that matches the pattern of an action bound to the trigger with an *)
(* output for v holds the output for v of the last such action, in the     *)
(* configuration's order, whose pattern matches the path.                  *)
(***************************************************************************)
C8_EndToEndRelay ==
  \A h \in Triggers : \A v \in {"active", "idle"} :
    Relayed(h, v)
    => LET acts == firing(cfg.trigger[h].name, v) IN
       /\ out.disp = Some(<<cfg.trigger[h].name, v>>)
       /\ \A a \in acts :
            \A p \in matched(a, fs) :
              LET last == CHOOSE b \in acts :
                            /\ p \in matched(b, fs)
                            /\ \A c \in acts : p \in matched(c, fs) => c <= b
              IN fs[p] = cfg.action[last].values[v]

\* The content "off" followed "on" for t1: both target files, which held "1",
\* now hold "0".
C8_Witness ==
  /\ Relayed(1, "idle")
  /\ out.before_cached = Some("active")
  /\ fs[cfg.trigger[1].file] = <<"o", "f", "f">>
  /\ fs[o1] = <<"0">> /\ fs[o2] = <<"0">>
  /\ out.wrote[2] = {o1, o2}

(***************************************************************************)
(* C9  Startup evaluation.  Every trigger gets exactly one initial poll    *)
(* before the loop is entered, the loop is never left for the startup      *)
(* again, and read_events is called in the loop only; an initial poll that *)
(* reads content the trigger's map resolves to a value dispatches it in    *)
(* that same startup step, where every action bound to the trigger with an *)
(* output for it writes the paths its pattern matches, up to the first     *)
(* failure.                                                                *)
(***************************************************************************)
C9_StartupEvaluation ==
  [][/\ out'.op = "init_poll"
        => /\ pc = "init_poll" /\ out'.h = i
           /\ init_polls[i] = 0 /\ init_polls'[i] = 1
           /\ LET val == resolve(i, fs[cfg.trigger[i].file]) IN
              (out'.read = "ok" /\ val # None)
              => /\ out'.disp = Some(<<cfg.trigger[i].name, unwrap(val)>>)
                 /\ \A a \in firing(cfg.trigger[i].name, unwrap(val)) :
                      (out'.err = 0 \/ a < out'.err)
                      => out'.wrote[a] = matched(a, fs)
     /\ out'.op = "read_events"
        => pc = "loop" /\ \A h \in Triggers : init_polls[h] = 1
     /\ pc' = "loop" => \A h \in Triggers : init_polls'[h] = 1
     /\ pc = "loop" => pc' \in {"loop", "exit"}
     /\ pc = "exit" => pc' = "exit"]_vars

\* The initial poll of t1 found "on": the target file was written during startup,
\* before the second trigger was set up and the loop entered.
C9_Witness ==
  /\ out.op = "init_poll" /\ out.h = 1
  /\ pc = "new"
  /\ out.disp = Some(<<"t1", "active">>)
  /\ o1 \in out.wrote[2] /\ fs[o1] = <<"1">>

(***************************************************************************)
(* C10  Pattern re-expansion.  An action that expands its pattern in a     *)
(* dispatch and meets no failure writes exactly the paths that exist and   *)
(* match when the dispatch is made, whether or not they existed at         *)
(* startup; a path that does not exist then is neither written nor made.   *)
(***************************************************************************)
C10_PatternReExpansion ==
  [][out'.op \in {"init_poll", "event"}
     => /\ \A a \in out'.globbed :
             out'.err # a => out'.wrote[a] = matched(a, fs)
        /\ \A a \in Actions : out'.wrote[a] \subseteq matched(a, fs)
        /\ \A p \in Paths : fs[p] = NoFile => fs'[p] = NoFile]_vars

\* A dispatch wrote o2, which did not exist at startup, and neither wrote nor
\* made o1, which existed at startup and has been removed.
C10_Witness ==
  /\ out.disp # None /\ out.err = 0
  /\ o2 \notin InitialFiles /\ o2 \in out.wrote[2]
  /\ o1 \in InitialFiles /\ fs[o1] = NoFile /\ o1 \notin out.wrote[2]

(***************************************************************************)
(* C11  Cache invariant.  In every state each handler's cached value is    *)
(* what the trigger's map gives the trimmed content of the handler's       *)
(* latest successful read, the read that set last_access; it is None while *)
(* no read was made or the latest read had no entry in the map.            *)
(***************************************************************************)
C11_CacheInvariant ==
  \A h \in Triggers :
    /\ last_access[h] = None <=> last_raw[h] = None
    /\ cached_val[h] = IF last_raw[h] = None THEN None
                       ELSE resolve(h, unwrap(last_raw[h]))

\* A second read replaced one cached value by another; the cache follows it.
C11_Witness ==
  \E h \in Triggers :
    /\ Polled(h) /\ out.read = "ok"
    /\ out.before_cached # None
    /\ cached_val[h] # None /\ cached_val[h] # out.before_cached
    /\ cached_val[h] = resolve(h, unwrap(last_raw[h]))

(***************************************************************************)
(* C12  The debounce clock advances on every successful read.  A poll that *)
(* reads the file sets last_access to the time of the read, whether or not *)
(* the content has an entry in the map and whether or not the value        *)
(* changed; so a poll less than 50 ms after a read that missed the map is  *)
(* suppressed and reads nothing.                                           *)
(***************************************************************************)
C12_ClockAdvancesOnEveryRead ==
  \A h \in Triggers :
    Polled(h)
    => /\ out.read = "ok"
          => /\ last_access[h] = Some(now)
             /\ last_raw[h] = Some(fs[cfg.trigger[h].file])
       /\ (/\ out.before_raw # None /\ out.before_access # None
           /\ resolve(h, unwrap(out.before_raw)) = None
           /\ elapsed(out.before_access) < Debounce)
          => /\ out.read = "skip" /\ out.value = None
             /\ last_raw[h] = out.before_raw
             /\ last_access[h] = out.before_access

\* A poll was suppressed within the window of a read that had missed the map,
\* although the file by now holds content that the map resolves.
C12_Witness ==
  \E h \in Triggers :
    /\ Polled(h) /\ out.read = "skip"
    /\ out.before_raw # None /\ resolve(h, unwrap(out.before_raw)) = None
    /\ resolve(h, fs[cfg.trigger[h].file]) # None

(***************************************************************************)
(* C13  Startup ordering, as claimed: the watches of all triggers are      *)
(* installed before any initial poll is made.                              *)
(***************************************************************************)
C13_AllWatchesBeforeAnyPoll ==
  out.op = "init_poll" => watches = Triggers

(***************************************************************************)
(* C13  Startup ordering, as the code has it: a trigger's watch is         *)
(* installed before the trigger's own initial poll, and after the initial  *)
(* polls of the triggers before it: at the initial poll of the k-th        *)
(* trigger the watches of the first k triggers are installed, at the       *)
(* installation of the k-th watch the first k - 1 triggers have been       *)
(* polled, and in the loop all watches are installed and registered.       *)
(***************************************************************************)
C13_StartupOrdering ==
  /\ \A h \in Triggers : Polled(h) => h \in watches
  /\ out.op = "init_poll" => watches = 1 .. out.h
  /\ out.op = "new"
     => /\ \A k \in Triggers : init_polls[k] = IF k < i THEN 1 ELSE 0
        /\ watches = IF pc = "exit" THEN 1 .. (i - 1) ELSE 1 .. i
  /\ pc = "loop" => watches = Triggers /\ DOMAIN trigger_map = Triggers

\* The installation of the second trigger's watch failed after the dispatch of
\* the first trigger's initial value had written a target file.
C13_Witness ==
  /\ out.op = "new" /\ pc = "exit" /\ i = 2
  /\ watches = {1}
  /\ cached_val[1] = Some("active")
  /\ fs[o1] = <<"1">>

(***************************************************************************)
(* C14  Name-keyed dispatch frame.  In a dispatch for trigger name n an    *)
(* action bound to another trigger name expands no pattern, writes no      *)
(* path and returns success; every path the dispatch writes is a path      *)
(* matched by the pattern of an action bound to n.                         *)
(***************************************************************************)
C14_NameKeyedFrame ==
  out.disp # None
  => LET n == unwrap(out.disp)[1] IN
     \A a \in Actions :
       /\ cfg.action[a].trigger # n
          => a \notin out.globbed /\ out.wrote[a] = {} /\ out.err # a
       /\ out.wrote[a] # {}
          => cfg.action[a].trigger = n /\ out.wrote[a] \subseteq matched(a, fs)

\* A dispatch for t2 called all three actions; the two bound to t1 did nothing
\* although one of them has an output for the value and a path to write it to.
C14_Witness ==
  /\ out.disp = Some(<<"t2", "active">>)
  /\ out.called = Actions /\ out.err = 0
  /\ out.globbed = {3} /\ out.wrote[3] = {o2}
  /\ fs[o1] = Stale /\ fs[o2] = <<"1">>

\* The place of a path in the order in which glob yields paths.
idx(p) == CHOOSE k \in 1 .. Len(AllPaths) : AllPaths[k] = p

(***************************************************************************)
(* C15  Write short-circuit within one action.  When a write of an action  *)
(* fails, the action has written exactly the matched paths that come       *)
(* before the failing one, which hold the new content; the failing path    *)
(* and the matched paths after it are not written, and the action returns  *)
(* the error.                                                              *)
(***************************************************************************)
C15_WriteShortCircuit ==
  out.failed # None
  => LET p == unwrap(out.failed)
         a == out.err
     IN /\ out.disp # None
        /\ a \in Actions /\ a \in out.globbed
        /\ p \in matched(a, fs)
        /\ out.wrote[a] = {q \in matched(a, fs) : idx(q) < idx(p)}
        /\ \A q \in out.wrote[a] :
             Some(fs[q]) = map_get(cfg.action[a].values, unwrap(out.disp)[2])

\* The write of the first of two matched paths failed: the second one exists,
\* was not written and still holds its old content.
C15_Witness ==
  /\ out.disp = Some(<<"t1", "active">>)
  /\ out.failed = Some(o1) /\ out.err = 2
  /\ o2 \in matched(2, fs) /\ o2 \notin out.wrote[2]
  /\ fs[o2] = Stale

(***************************************************************************)
(* C16  Unrecognized watch identifiers are ignored.  Processing an event   *)
(* whose watch identifier is not a key of the registry polls no handler,   *)
(* changes no handler's last_access, cached value or last read content,    *)
(* dispatches nothing, writes nothing, and leaves the loop running with    *)
(* the rest of the batch.                                                  *)
(***************************************************************************)
C16_UnknownWdIgnored ==
  [][(pc = "loop" /\ events # <<>> /\ Head(events) \notin DOMAIN trigger_map)
     => /\ out'.op = "event" /\ out'.h = 0 /\ out'.read = "none"
        /\ out'.disp = None /\ out'.called = {}
        /\ \A a \in Actions : out'.wrote[a] = {}
        /\ UNCHANGED <<last_access, cached_val, last_raw, fs>>
        /\ pc' = "loop"
        /\ events' = Tail(events)]_vars

\* An event with an unknown watch identifier was processed while the first
\* trigger's file held content its handler would have dispatched.
C16_Witness ==
  /\ out.op = "event" /\ out.h = 0 /\ pc = "loop"
  /\ last_access[1] # None /\ elapsed(last_access[1]) >= Debounce
  /\ resolve(1, fs[s1]) # None
  /\ resolve(1, fs[s1]) # cached_val[1]

(***************************************************************************)
(* C17  Dispatched values come from the trigger's own map.  Every dispatch *)
(* is made by a poll that read the file, and carries the polled trigger's  *)
(* name and the entry of that trigger's map for the trimmed content read   *)
(* by that poll.  Nothing is dispatched by a debounced poll, by a failed   *)
(* read, or by a read whose content has no entry in the map, which leaves  *)
(* the cache None; a step that polls no handler dispatches nothing.        *)
(***************************************************************************)
C17_DispatchedValueFromMap ==
  /\ out.h = 0 => out.disp = None /\ out.called = {}
  /\ \A h \in Triggers :
       Polled(h)
       => /\ out.read # "ok" => out.disp = None /\ out.called = {}
          /\ out.read = "ok"
             => LET val == resolve(h, unwrap(last_raw[h])) IN
                /\ val = None
                   => out.disp = None /\ out.called = {} /\ cached_val[h] = None
                /\ out.disp # None
                   => /\ val # None
                      /\ out.disp = Some(<<cfg.trigger[h].name, unwrap(val)>>)
                      /\ out.called # {}

\* An event's poll read "off" while "active" was cached, and dispatched the
\* map's entry for it.
C17_Witness ==
  /\ out.op = "event" /\ out.h = 1
  /\ out.before_cached = Some("active")
  /\ last_raw[1] = Some(<<"o", "f", "f">>)
  /\ out.disp = Some(<<"t1", "idle">>)

(***************************************************************************)
(* C18  The cache is committed before the dispatch.  After a poll that     *)
(* dispatched, the handler's cached value is the dispatched value, also    *)
(* when the dispatch failed; and a poll that reads content resolving to    *)
(* the value already cached dispatches nothing and writes nothing, so the  *)
(* targets a failed dispatch left unwritten are not written again until    *)
(* the resolved value changes.                                             *)
(***************************************************************************)
C18_CacheCommittedBeforeDispatch ==
  \A h \in Triggers :
    Polled(h)
    => /\ out.disp # None
          => /\ cached_val[h] = out.value
             /\ cached_val[h] = Some(unwrap(out.disp)[2])
       /\ (out.read = "ok" /\ resolve(h, unwrap(last_raw[h])) = out.before_cached)
          => /\ out.disp = None /\ out.called = {}
             /\ \A a \in Actions : out.wrote[a] = {}
             /\ cached_val[h] = out.before_cached

\* The dispatch of "active" failed in the second action before any write: the
\* cache holds "active" while the target still holds the output for "idle".
C18_Witness ==
  /\ out.op = "event" /\ out.h = 1
  /\ out.before_cached = Some("idle")
  /\ out.disp = Some(<<"t1", "active">>)
  /\ out.err = 2 /\ out.wrote[2] = {}
  /\ cached_val[1] = Some("active")
  /\ fs[o1] = <<"0">>

(***************************************************************************)
(* C19  Debounced events are dropped, not deferred.  Every event is taken  *)
(* off the batch by the step that processes it, whether or not its poll    *)
(* was suppressed; a suppressed poll changes nothing; a handler's          *)
(* last_access and cached value change only in a poll of that handler that *)
(* reads the file, 50 ms or more after its previous read; and the program  *)
(* changes files only in a step that dispatches.  So content that changed  *)
(* before a suppressed event stays unseen until another event of the same  *)
(* watch is processed outside the window.                                  *)
(***************************************************************************)
C19_DroppedNotDeferred ==
  [][/\ events # <<>> => events' = Tail(events)
     /\ out'.read = "skip"
        => /\ out'.disp = None /\ fs' = fs
           /\ UNCHANGED <<last_access, cached_val, last_raw>>
     /\ \A h \in Triggers :
          (cached_val'[h] # cached_val[h] \/ last_access'[h] # last_access[h])
          => /\ out'.op \in {"init_poll", "event"} /\ out'.h = h
             /\ out'.read = "ok"
             /\ last_access[h] = None \/ now - unwrap(last_access[h]) >= Debounce
     /\ (out'.op # "env" /\ fs' # fs) => out'.disp # None]_vars

\* The only event after a change of the file from "on" to "off" fell inside
\* the window: no event is pending, the cache still holds "active" and the
\* target still holds the output for "active".
C19_Witness ==
  /\ out.op = "event" /\ out.h = 1 /\ out.read = "skip"
  /\ events = <<>> /\ pc = "loop"
  /\ cached_val[1] = Some("active")
  /\ resolve(1, fs[s1]) = Some("idle")
  /\ fs[o1] = <<"1">>

(***************************************************************************)
(* C20  A failed read leaves the handler unchanged.  After a poll whose    *)
(* read of the file failed, the handler's last_access, cached value and    *)
(* last read content are what they were before the poll, no value is       *)
(* returned and nothing is dispatched: the failure starts no debounce      *)
(* window and clears no cache.                                             *)
(***************************************************************************)
C20_FailedReadNoChange ==
  \A h \in Triggers :
    (Polled(h) /\ out.read = "err")
    => /\ last_access[h] = out.before_access
       /\ cached_val[h] = out.before_cached
       /\ last_raw[h] = out.before_raw
       /\ out.value = None /\ out.disp = None /\ out.called = {}

\* A read failed a full window after a read that had cached a value; the cache
\* and the time of the last read are those of the earlier read.
C20_Witness ==
  \E h \in Triggers :
    /\ Polled(h) /\ out.read = "err"
    /\ out.before_access # None /\ elapsed(out.before_access) >= Debounce
    /\ cached_val[h] # None

====
